---- MODULE Spec2Model ----
(***************************************************************************)
(* Model of the contact manager: Phone / Name values, Record, AddressBook  *)
(* (models.py), the command handlers (handler.py), the error decorator     *)
(* (decorators.py) and the command loop (main.py).                         *)
(*                                                                         *)
(* Python strings are sequences of one-character strings.                  *)
(***************************************************************************)
EXTENDS Integers, Sequences, FiniteSets, TLC

VARIABLES
    raw_phone,  \* Phone layer: the raw string handed to Phone(...)
    phone,      \* Phone layer: outcome of Phone(raw_phone)
    again,      \* Phone layer: outcome of Phone(phone.value)
    record,     \* Record layer: one Record object (name, phones)
    data,       \* AddressBook.data: insertion-ordered list of key/value entries
    call,       \* Record / AddressBook layer: the last call and its outcome
    pc,         \* command loop: "running", "exited" (break) or "crashed"
    command,    \* command loop: the command word of the last line read
    args,       \* command loop: the arguments of the last line read
    output      \* command loop: what the last iteration printed

vars == <<raw_phone, phone, again, record, data, call, pc, command, args, output>>

-----------------------------------------------------------------------------
(* Bounds of the model *)

MaxBodyLen == 12    \* longest run of subscriber digits in a generated raw phone
MaxInsertPos == 4   \* positions at which a stray character is inserted
MaxArgs == 3        \* most arguments on one command line

(* Program constants *)

PhoneLen == 13

-----------------------------------------------------------------------------
(* Characters and strings *)

Digits == {"0", "1", "2", "3", "4", "5", "6", "7", "8", "9"}

NoError == "none"

NoPhone == [err |-> "pending", message |-> "", value |-> <<>>]
InitCall == [op |-> "init", args |-> <<>>, raise_error |-> TRUE, err |-> NoError, message |-> "", result |-> <<>>]
NoOutput == [kind |-> "none", msg |-> "", detail |-> "", text |-> <<>>, items |-> <<>>]
startswith(s, prefix) ==
    /\ Len(s) >= Len(prefix)
    /\ SubSeq(s, 1, Len(prefix)) = prefix

-----------------------------------------------------------------------------
(* models.py: Phone *)

\* pattern = r"[+\d]"
pattern(c) == c = "+" \/ c \in Digits

country_code == <<"3", "8">>

\* "".join(re.findall(self.pattern, raw_phone))
findall_join(raw) == SelectSeq(raw, pattern)

\* re.sub(fr"^({self.country_code})?", f"+{self.country_code}", phone)
sub_country_code(p) ==
    IF startswith(p, country_code)
    THEN <<"+">> \o country_code \o SubSeq(p, Len(country_code) + 1, Len(p))
    ELSE <<"+">> \o country_code \o p

\* Mutant: the country code is prepended whether or not the string starts with "+"
Phone_always_prefix(raw) ==
    LET p == sub_country_code(findall_join(raw))
    IN  IF Len(p) # PhoneLen
        THEN [err |-> "PhoneFormatError", message |-> "Invalid phone number.", value |-> <<>>]
        ELSE [err |-> NoError, message |-> "", value |-> p]

\* Phone.__init__: the outcome is the raised error or the stored value
Phone(raw) ==
    LET found == findall_join(raw)
        p == IF ~startswith(found, <<"+">>) THEN sub_country_code(found) ELSE found
    IN  IF Len(p) # PhoneLen
        THEN [err |-> "PhoneFormatError", message |-> "Invalid phone number.", value |-> <<>>]
        ELSE [err |-> NoError, message |-> "", value |-> p]

-----------------------------------------------------------------------------
(* models.py: Name, Record *)

Alice == <<"A", "l", "i", "c", "e">>
Bob == <<"B", "o", "b">>
Names == {Alice, Bob}

\* Record.__init__: Name(name) and an empty phone list.
\* A Name / Phone object is represented by its value (Field.__eq__, __hash__).
Record(name) == [name |-> name, phones |-> <<>>]

\* Field.__eq__ for two Field objects
Field_eq(a, b) == a = b

\* Record.find_phone: index of the first stored phone equal to Phone(raw),
\* 0 for None; err when Phone(raw) raises
find_phone(rec, raw) ==
    LET target_phone == Phone(raw)
        hits == { i \in 1..Len(rec.phones) : Field_eq(rec.phones[i], target_phone.value) }
    IN  IF target_phone.err # NoError
        THEN [err |-> target_phone.err, message |-> target_phone.message, idx |-> 0]
        ELSE IF hits = {}
             THEN [err |-> NoError, message |-> "", idx |-> 0]
             ELSE [err |-> NoError, message |-> "", idx |-> CHOOSE i \in hits : \A j \in hits : i <= j]

\* Mutant: the duplicate check is dropped
add_phone_unchecked(rec, raw) ==
    LET p == Phone(raw)
    IN  IF p.err # NoError
        THEN [err |-> p.err, message |-> p.message, rec |-> rec]
        ELSE [err |-> NoError, message |-> "",
              rec |-> [rec EXCEPT !.phones = Append(@, p.value)]]

\* Record.add_phone
add_phone(rec, raw) ==
    LET found == find_phone(rec, raw)
        p == Phone(raw)
    IN  IF found.err # NoError
        THEN [err |-> found.err, message |-> found.message, rec |-> rec]
        ELSE IF found.idx # 0
             THEN [err |-> "ContactError", message |-> "Phone number already exists.", rec |-> rec]
             ELSE [err |-> NoError, message |-> "",
                   rec |-> [rec EXCEPT !.phones = Append(@, p.value)]]

RemoveAt(s, i) == SubSeq(s, 1, i - 1) \o SubSeq(s, i + 1, Len(s))

\* Record.remove_phone
remove_phone(rec, raw) ==
    LET existing_phone == find_phone(rec, raw)
    IN  IF existing_phone.err # NoError
        THEN [err |-> existing_phone.err, message |-> existing_phone.message, rec |-> rec]
        ELSE IF existing_phone.idx # 0
             THEN [err |-> NoError, message |-> "",
                   rec |-> [rec EXCEPT !.phones = RemoveAt(@, existing_phone.idx)]]
             ELSE [err |-> NoError, message |-> "", rec |-> rec]

\* Mutant: the old entry is dropped first and the new one is appended at the end
edit_phone_reappend(rec, raw, new_raw) ==
    LET existing_phone == find_phone(rec, raw)
        new_found == find_phone(rec, new_raw)
    IN  IF existing_phone.err # NoError
        THEN [err |-> existing_phone.err, message |-> existing_phone.message, rec |-> rec]
        ELSE IF existing_phone.idx = 0
             THEN [err |-> "ContactError", message |-> "No such phone number.", rec |-> rec]
             ELSE IF new_found.err # NoError
                  THEN [err |-> new_found.err, message |-> new_found.message, rec |-> rec]
                  ELSE IF new_found.idx # 0
                       THEN [err |-> "ContactError", message |-> "New phone number already exists.", rec |-> rec]
                       ELSE [err |-> NoError, message |-> "",
                             rec |-> [rec EXCEPT !.phones =
                                         Append(RemoveAt(@, existing_phone.idx), Phone(new_raw).value)]]

\* Mutant: the old entry is removed before the new number is validated
edit_phone_remove_first(rec, raw, new_raw) ==
    LET existing_phone == find_phone(rec, raw)
        removed == [rec EXCEPT !.phones = RemoveAt(@, existing_phone.idx)]
        new_found == find_phone(removed, new_raw)
    IN  IF existing_phone.err # NoError
        THEN [err |-> existing_phone.err, message |-> existing_phone.message, rec |-> rec]
        ELSE IF existing_phone.idx = 0
             THEN [err |-> "ContactError", message |-> "No such phone number.", rec |-> rec]
             ELSE IF new_found.err # NoError
                  THEN [err |-> new_found.err, message |-> new_found.message, rec |-> removed]
                  ELSE IF new_found.idx # 0
                       THEN [err |-> "ContactError", message |-> "New phone number already exists.", rec |-> removed]
                       ELSE [err |-> NoError, message |-> "",
                             rec |-> [rec EXCEPT !.phones[existing_phone.idx] = Phone(new_raw).value]]

\* Mutant: the entry being replaced is left out of the duplicate check
edit_phone_excluding_replaced(rec, raw, new_raw) ==
    LET existing_phone == find_phone(rec, raw)
        new_found == find_phone(rec, new_raw)
    IN  IF existing_phone.err # NoError
        THEN [err |-> existing_phone.err, message |-> existing_phone.message, rec |-> rec]
        ELSE IF existing_phone.idx = 0
             THEN [err |-> "ContactError", message |-> "No such phone number.", rec |-> rec]
             ELSE IF new_found.err # NoError
                  THEN [err |-> new_found.err, message |-> new_found.message, rec |-> rec]
                  ELSE IF new_found.idx # 0 /\ new_found.idx # existing_phone.idx
                       THEN [err |-> "ContactError", message |-> "New phone number already exists.", rec |-> rec]
                       ELSE [err |-> NoError, message |-> "",
                             rec |-> [rec EXCEPT !.phones[existing_phone.idx] = Phone(new_raw).value]]

\* Record.edit_phone
edit_phone(rec, raw, new_raw) ==
    LET existing_phone == find_phone(rec, raw)
        new_found == find_phone(rec, new_raw)
    IN  IF existing_phone.err # NoError
        THEN [err |-> existing_phone.err, message |-> existing_phone.message, rec |-> rec]
        ELSE IF existing_phone.idx = 0
             THEN [err |-> "ContactError", message |-> "No such phone number.", rec |-> rec]
             ELSE IF new_found.err # NoError
                  THEN [err |-> new_found.err, message |-> new_found.message, rec |-> rec]
                  ELSE IF new_found.idx # 0
                       THEN [err |-> "ContactError", message |-> "New phone number already exists.", rec |-> rec]
                       ELSE [err |-> NoError, message |-> "",
                             rec |-> [rec EXCEPT !.phones[existing_phone.idx] = Phone(new_raw).value]]

\* sep.join(items)
RECURSIVE join(_, _)
join(sep, items) ==
    IF items = <<>> THEN <<>>
    ELSE IF Len(items) = 1 THEN items[1]
    ELSE items[1] \o sep \o join(sep, Tail(items))

ContactNameLabel == <<"C", "o", "n", "t", "a", "c", "t", " ", "n", "a", "m", "e", ":", " ">>
PhonesLabel == <<",", " ", "p", "h", "o", "n", "e", "s", ":", " ">>

\* Record.__str__
Record_str(rec) ==
    ContactNameLabel \o rec.name \o PhonesLabel \o join(<<";", " ">>, rec.phones)

-----------------------------------------------------------------------------
(* Raw phone strings the Record layer is exercised with *)

Raw_A_local == <<"0", "5", "0", "1", "2", "3", "4", "5", "6", "7">>
Raw_A_full == <<"+", "3", "8", "0", "5", "0", "1", "2", "3", "4", "5", "6", "7">>
Raw_A_dashed == <<"(", "0", "5", "0", ")", "1", "2", "3", "-", "4", "5", "-", "6", "7">>
Raw_B_local == <<"0", "5", "0", "9", "9", "9", "9", "9", "9", "9">>
Raw_B_full == <<"+", "3", "8", "0", "5", "0", "9", "9", "9", "9", "9", "9", "9">>
Raw_C_code == <<"3", "8", "0", "6", "7", "1", "1", "1", "2", "2", "3", "3">>
Raw_short == <<"1", "2", "3", "4", "5">>

RecordRawPhones ==
    {Raw_A_local, Raw_A_full, Raw_A_dashed, Raw_B_local, Raw_B_full, Raw_C_code, Raw_short}

InitRecord ==
    /\ raw_phone = <<>>
    /\ phone = NoPhone
    /\ again = NoPhone
    /\ record \in { Record(n) : n \in Names }
    /\ data = <<>>
    /\ call = InitCall
    /\ pc = "running"
    /\ command = <<>>
    /\ args = <<>>
    /\ output = NoOutput

RecordCall(op, as, r) ==
    [op |-> op, args |-> as, raise_error |-> TRUE, err |-> r.err, message |-> r.message, result |-> <<>>]

\* record.add_phone(raw)
AddPhone ==
    \E raw \in RecordRawPhones :
        LET r == add_phone(record, raw)
        IN  /\ record' = r.rec
            /\ call' = RecordCall("add_phone", <<raw>>, r)
            /\ UNCHANGED <<raw_phone, phone, again, data, pc, command, args, output>>

\* record.remove_phone(raw)
RemovePhone ==
    \E raw \in RecordRawPhones :
        LET r == remove_phone(record, raw)
        IN  /\ record' = r.rec
            /\ call' = RecordCall("remove_phone", <<raw>>, r)
            /\ UNCHANGED <<raw_phone, phone, again, data, pc, command, args, output>>

\* record.edit_phone(raw, new_raw)
EditPhone ==
    \E raw \in RecordRawPhones, new_raw \in RecordRawPhones :
        LET r == edit_phone(record, raw, new_raw)
        IN  /\ record' = r.rec
            /\ call' = RecordCall("edit_phone", <<raw, new_raw>>, r)
            /\ UNCHANGED <<raw_phone, phone, again, data, pc, command, args, output>>

\* str(record)
StrRecord ==
    /\ call' = [op |-> "__str__", args |-> <<>>, raise_error |-> TRUE, err |-> NoError,
                message |-> "", result |-> Record_str(record)]
    /\ UNCHANGED <<raw_phone, phone, again, record, data, pc, command, args, output>>

NextRecord == AddPhone \/ RemovePhone \/ EditPhone \/ StrRecord

SpecRecord == InitRecord /\ [][NextRecord]_vars

Normalizes(raw) == Phone(raw).err = NoError
Stored(rec) == { rec.phones[i] : i \in 1..Len(rec.phones) }

(* C5: a record's phone list never holds two entries with the same normalized
   value, whatever raw spellings were supplied. *)
C5_PhonesUnique ==
    \A i, j \in 1..Len(record.phones) : i # j => record.phones[i] # record.phones[j]

\* a second spelling of a stored number was supplied to add_phone and rejected
C5_Witness ==
    /\ Len(record.phones) >= 2
    /\ call.op = "add_phone"
    /\ call.err = "ContactError"
    /\ call.args[1] \notin Stored(record)
    /\ Phone(call.args[1]).value \in Stored(record)

(* C6: a failing Record operation leaves the phone list unchanged: add_phone
   of an already stored number fails with ContactError, edit_phone whose old
   number normalizes but matches nothing fails with ContactError, a call whose
   first raw string does not normalize (or edit_phone with a matched old number
   and a new number that does not normalize) fails with PhoneFormatError; after
   any failing call the record equals the record before it. *)
C6_FailureLeavesPhonesUnchanged ==
    [][ /\ call'.err # NoError => record' = record
        /\ (call'.op = "add_phone" /\ Normalizes(call'.args[1])
              /\ Phone(call'.args[1]).value \in Stored(record))
               => call'.err = "ContactError"
        /\ (call'.op = "edit_phone" /\ Normalizes(call'.args[1])
              /\ Phone(call'.args[1]).value \notin Stored(record))
               => call'.err = "ContactError"
        /\ (call'.op \in {"add_phone", "remove_phone", "edit_phone"} /\ ~Normalizes(call'.args[1]))
               => call'.err = "PhoneFormatError"
        /\ (call'.op = "edit_phone" /\ Normalizes(call'.args[1])
              /\ Phone(call'.args[1]).value \in Stored(record) /\ ~Normalizes(call'.args[2]))
               => call'.err = "PhoneFormatError"
      ]_vars

\* edit_phone found the old number and failed on the new one, on a record with phones
C6_Witness ==
    /\ call.op = "edit_phone"
    /\ call.err # NoError
    /\ Normalizes(call.args[1])
    /\ Phone(call.args[1]).value \in Stored(record)
    /\ Len(record.phones) >= 2

E2ERendered ==
    ContactNameLabel \o Alice \o PhonesLabel \o Phone(Raw_A_local).value \o <<";", " ">> \o Raw_B_full

(* C7: phones are kept in insertion order: a successful add_phone appends at
   the end, a successful remove_phone keeps the relative order of the others,
   a successful edit_phone replaces the matched entry at its index and changes
   nothing else; adding 0501234567 and 0509999999 to a new record Alice and
   rendering it gives "+380501234567; +380509999999" in that order. *)
C7_InsertionOrder ==
    [][ /\ (call'.op = "add_phone" /\ call'.err = NoError)
              => record'.phones = Append(record.phones, Phone(call'.args[1]).value)
        /\ (call'.op = "remove_phone" /\ call'.err = NoError)
              => \/ /\ Phone(call'.args[1]).value \notin Stored(record)
                    /\ record'.phones = record.phones
                 \/ \E i \in 1..Len(record.phones) :
                        /\ record.phones[i] = Phone(call'.args[1]).value
                        /\ Len(record'.phones) = Len(record.phones) - 1
                        /\ \A k \in 1..(i - 1) : record'.phones[k] = record.phones[k]
                        /\ \A k \in i..Len(record'.phones) : record'.phones[k] = record.phones[k + 1]
        /\ (call'.op = "edit_phone" /\ call'.err = NoError)
              => /\ Len(record'.phones) = Len(record.phones)
                 /\ \E i \in 1..Len(record.phones) :
                        /\ record.phones[i] = Phone(call'.args[1]).value
                        /\ record'.phones[i] = Phone(call'.args[2]).value
                        /\ \A k \in 1..Len(record.phones) :
                               k # i => record'.phones[k] = record.phones[k]
        /\ (record = Record(Alice) /\ call'.op = "add_phone" /\ call'.args = <<Raw_A_local>>)
              => record'.phones = <<Raw_A_full>>
        /\ (record.name = Alice /\ record.phones = <<Raw_A_full>>
              /\ call'.op = "add_phone" /\ call'.args = <<Raw_B_local>>)
              => record'.phones = <<Raw_A_full, Raw_B_full>>
        /\ (record.name = Alice /\ record.phones = <<Raw_A_full, Raw_B_full>> /\ call'.op = "__str__")
              => call'.result = E2ERendered
      ]_vars

\* the record with both numbers was rendered
C7_Witness ==
    /\ call.op = "__str__"
    /\ record.phones = <<Raw_A_full, Raw_B_full>>
    /\ call.result = E2ERendered

(* C2 as stated: edit_phone whose old number matches a stored phone fails with
   the duplicate ContactError only if the new number normalizes to a stored
   phone other than the one being replaced; editing a phone to another
   spelling of itself succeeds and leaves the same values. *)
C2_DuplicateCheckExcludesReplaced ==
    [][ (call'.op = "edit_phone" /\ Normalizes(call'.args[1]) /\ Normalizes(call'.args[2])
           /\ Phone(call'.args[1]).value \in Stored(record))
        => /\ call'.err = "ContactError"
                => Phone(call'.args[2]).value \in (Stored(record) \ {Phone(call'.args[1]).value})
           /\ Phone(call'.args[2]).value = Phone(call'.args[1]).value
                => (call'.err = NoError /\ record'.phones = record.phones)
      ]_vars

(* C2 amended: edit_phone whose old number matches a stored phone fails with
   the duplicate ContactError exactly when the new number normalizes to any
   stored phone, the one matched by old included; editing a phone to another
   spelling of itself fails with ContactError and leaves the list unchanged. *)
C2_DuplicateCheckIncludesReplaced ==
    [][ (call'.op = "edit_phone" /\ Normalizes(call'.args[1]) /\ Normalizes(call'.args[2])
           /\ Phone(call'.args[1]).value \in Stored(record))
        => /\ call'.err = "ContactError" <=> Phone(call'.args[2]).value \in Stored(record)
           /\ call'.err \in {NoError, "ContactError"}
           /\ Phone(call'.args[2]).value = Phone(call'.args[1]).value
                => (call'.err = "ContactError" /\ record' = record)
      ]_vars

\* a stored phone was edited to another spelling of itself
C2_Witness ==
    /\ call.op = "edit_phone"
    /\ call.err = "ContactError"
    /\ call.args[1] # call.args[2]
    /\ Normalizes(call.args[1])
    /\ Phone(call.args[1]).value = Phone(call.args[2]).value
    /\ Phone(call.args[1]).value \in Stored(record)

-----------------------------------------------------------------------------
(* models.py: AddressBook(UserDict).  self.data is an insertion-ordered dict,
   kept as the list of its entries [key, value] in insertion order. *)

\* key in self.data
dict_contains(d, key) == \E i \in 1..Len(d) : Field_eq(d[i].key, key)

\* position of key in self.data, 0 when absent
dict_index(d, key) ==
    IF dict_contains(d, key) THEN CHOOSE i \in 1..Len(d) : Field_eq(d[i].key, key) ELSE 0

\* self.data[key] = value
dict_setitem(d, key, value) ==
    IF dict_contains(d, key)
    THEN [d EXCEPT ![dict_index(d, key)].value = value]
    ELSE Append(d, [key |-> key, value |-> value])

\* del self.data[key]
dict_delitem(d, key) == RemoveAt(d, dict_index(d, key))

\* Mutant: the existence check is dropped, an existing record is replaced
add_record_overwrite(d, rec) ==
    [err |-> NoError, message |-> "", data |-> dict_setitem(d, rec.name, rec)]

\* AddressBook.add_record
add_record(d, rec) ==
    IF dict_contains(d, rec.name)
    THEN [err |-> "ContactError", message |-> "Contact already exists.", data |-> d]
    ELSE [err |-> NoError, message |-> "", data |-> dict_setitem(d, rec.name, rec)]

\* AddressBook.find: result is <<record>> or <<>> for None
find(d, name, raise_error) ==
    IF ~dict_contains(d, name)
    THEN IF raise_error
         THEN [err |-> "ContactError", message |-> "No such contact.", result |-> <<>>]
         ELSE [err |-> NoError, message |-> "", result |-> <<>>]
    ELSE [err |-> NoError, message |-> "", result |-> <<d[dict_index(d, name)].value>>]

\* Mutant: the entry is removed together with every entry inserted after it
delete_truncate(d, name) ==
    IF dict_contains(d, name)
    THEN [err |-> NoError, message |-> "", data |-> SubSeq(d, 1, dict_index(d, name) - 1)]
    ELSE [err |-> NoError, message |-> "", data |-> d]

\* AddressBook.delete
delete(d, name) ==
    IF dict_contains(d, name)
    THEN [err |-> NoError, message |-> "", data |-> dict_delitem(d, name)]
    ELSE [err |-> NoError, message |-> "", data |-> d]

-----------------------------------------------------------------------------
(* The AddressBook layer: add_record, find and delete called directly *)

Carol == <<"C", "a", "r", "o", "l">>
BookNames == Names \cup {Carol}

\* records handed to add_record: new ones and ones that already hold a phone
BookRecords ==
    { Record(n) : n \in BookNames }
        \cup { add_phone(Record(n), raw).rec : n \in BookNames, raw \in {Raw_A_local, Raw_B_full} }

InitBook ==
    /\ raw_phone = <<>>
    /\ phone = NoPhone
    /\ again = NoPhone
    /\ record = Record(Alice)
    /\ data = <<>>
    /\ call = InitCall
    /\ pc = "running"
    /\ command = <<>>
    /\ args = <<>>
    /\ output = NoOutput

\* book.add_record(rec)
AddRecord ==
    \E rec \in BookRecords :
        LET r == add_record(data, rec)
        IN  /\ data' = r.data
            /\ call' = [op |-> "add_record", args |-> <<rec>>, raise_error |-> TRUE,
                        err |-> r.err, message |-> r.message, result |-> <<>>]
            /\ UNCHANGED <<raw_phone, phone, again, record, pc, command, args, output>>

\* book.find(name, raise_error)
Find ==
    \E name \in BookNames, raise_error \in BOOLEAN :
        LET r == find(data, name, raise_error)
        IN  /\ call' = [op |-> "find", args |-> <<name>>, raise_error |-> raise_error,
                        err |-> r.err, message |-> r.message, result |-> r.result]
            /\ UNCHANGED <<raw_phone, phone, again, record, data, pc, command, args, output>>

\* book.delete(name)
Delete ==
    \E name \in BookNames :
        LET r == delete(data, name)
        IN  /\ data' = r.data
            /\ call' = [op |-> "delete", args |-> <<name>>, raise_error |-> TRUE,
                        err |-> r.err, message |-> r.message, result |-> <<>>]
            /\ UNCHANGED <<raw_phone, phone, again, record, pc, command, args, output>>

NextBook == AddRecord \/ Find \/ Delete

SpecBook == InitBook /\ [][NextBook]_vars

Keys(d) == { d[i].key : i \in 1..Len(d) }

(* C8: the book holds at most one record per distinct Name and every record is
   stored under the key equal to its own Name; add_record of a record whose
   Name is already present fails with ContactError and leaves the book
   unchanged, the existing record is not replaced. *)
C8_OneRecordPerName ==
    /\ [](/\ \A i, j \in 1..Len(data) : i # j => data[i].key # data[j].key
          /\ \A i \in 1..Len(data) : data[i].value.name = data[i].key)
    /\ [][ (call'.op = "add_record" /\ call'.args[1].name \in Keys(data))
              => (call'.err = "ContactError" /\ data' = data)
         ]_vars

\* add_record was refused for a record that differs from the stored one
C8_Witness ==
    /\ call.op = "add_record"
    /\ call.err = "ContactError"
    /\ \E i \in 1..Len(data) :
          /\ data[i].key = call.args[1].name
          /\ data[i].value # call.args[1]
    /\ Len(data) >= 2

(* C9: delete(name) removes exactly the entry for that Name: right after it
   find(name, raise_error=False) returns None without error, find(name) fails
   with ContactError, all other entries are unchanged and keep their order,
   and delete of an absent Name raises nothing and leaves the book unchanged. *)
C9_DeleteRemovesExactlyOne ==
    [][ call'.op = "delete"
          => LET name == call'.args[1]
                 others(e) == e.key # name
             IN  /\ call'.err = NoError
                 /\ find(data', name, FALSE) = [err |-> NoError, message |-> "", result |-> <<>>]
                 /\ find(data', name, TRUE).err = "ContactError"
                 /\ data' = SelectSeq(data, others)
                 /\ name \notin Keys(data) => data' = data
      ]_vars

\* delete was called while other entries were in the book, which are still there
C9_Witness ==
    /\ call.op = "delete"
    /\ call.args[1] \notin Keys(data)
    /\ Len(data) = Cardinality(BookNames) - 1

-----------------------------------------------------------------------------
(* decorators.py: input_error; handler.py: the command handlers.
   A handler outcome is [err, message, value, data]: the exception that left
   the handler (NoError for a return), the returned value as it prints, and
   the book after the call. *)

Printed(kind, msg, detail, text, items) ==
    [kind |-> kind, msg |-> msg, detail |-> detail, text |-> text, items |-> items]

Caught == {"ValueError", "IndexError", "ContactError", "PhoneFormatError"}

\* hasattr(e, "message"): ContactError and PhoneFormatError set it
HasMessage == {"ContactError", "PhoneFormatError"}

\* input_error(strerror)(func)(*args): the wrapper around a handler outcome
input_error(strerror, r) ==
    IF r.err \in Caught
    THEN IF r.err \in HasMessage
         THEN [r EXCEPT !.err = NoError, !.message = "",
                        !.value = Printed("error", strerror, r.message, <<>>, <<>>)]
         ELSE [r EXCEPT !.err = NoError, !.message = "",
                        !.value = Printed("error", strerror, "", <<>>, <<>>)]
    ELSE r

Raised(err, message, d) == [err |-> err, message |-> message, value |-> NoOutput, data |-> d]
Returned(value, d) == [err |-> NoError, message |-> "", value |-> value, data |-> d]

\* handler.add_contact_number, undecorated
add_contact_number_body(d, as) ==
    IF Len(as) # 2
    THEN Raised("ValueError", "", d)
    ELSE LET name == as[1]
             found == find(d, name, FALSE)
             added == add_record(d, Record(name))
             d1 == IF found.result = <<>> THEN added.data ELSE d
         IN  IF found.result = <<>> /\ added.err # NoError
             THEN Raised(added.err, added.message, d)
             ELSE LET idx == dict_index(d1, name)
                      r == add_phone(d1[idx].value, as[2])
                      d2 == [d1 EXCEPT ![idx].value = r.rec]
                  IN  IF r.err # NoError
                      THEN Raised(r.err, r.message, d2)
                      ELSE Returned(Printed("result", "Contact number added.", "", <<>>, <<>>), d2)

\* the Cyrillic placeholders of the usage messages are written in Latin letters
add_contact_number(d, as) ==
    input_error("Invalid command. Usage: add [name] [phone]", add_contact_number_body(d, as))

\* handler.change_contact_number, undecorated
change_contact_number_body(d, as) ==
    IF Len(as) # 3
    THEN Raised("ValueError", "", d)
    ELSE LET name == as[1]
             found == find(d, name, TRUE)
         IN  IF found.err # NoError
             THEN Raised(found.err, found.message, d)
             ELSE LET idx == dict_index(d, name)
                      r == edit_phone(d[idx].value, as[2], as[3])
                      d2 == [d EXCEPT ![idx].value = r.rec]
                  IN  IF r.err # NoError
                      THEN Raised(r.err, r.message, d2)
                      ELSE Returned(Printed("result", "Contact number updated.", "", <<>>, <<>>), d2)

change_contact_number(d, as) ==
    input_error("Invalid command. Usage: change [name] [phone] [new phone]",
                change_contact_number_body(d, as))

\* handler.delete_contact, undecorated
delete_contact_body(d, as) ==
    IF Len(as) # 1
    THEN Raised("ValueError", "", d)
    ELSE LET r == delete(d, as[1])
         IN  IF r.err # NoError
             THEN Raised(r.err, r.message, r.data)
             ELSE Returned(Printed("result", "Contact deleted.", "", <<>>, <<>>), r.data)

delete_contact(d, as) ==
    input_error("Invalid command. Usage: delete [name]", delete_contact_body(d, as))

\* handler.get_contact, undecorated; the returned Record prints as str(record)
get_contact_body(d, as) ==
    IF Len(as) # 1
    THEN Raised("ValueError", "", d)
    ELSE LET found == find(d, as[1], TRUE)
         IN  IF found.err # NoError
             THEN Raised(found.err, found.message, d)
             ELSE Returned(Printed("record", "", "", Record_str(found.result[1]), <<>>), d)

get_contact(d, as) ==
    input_error("Invalid command. Usage: contact [name]", get_contact_body(d, as))

\* handler.get_all_contacts
get_all_contacts(d) ==
    Returned(Printed("list", "", "", <<>>, [i \in 1..Len(d) |-> Record_str(d[i].value)]), d)

-----------------------------------------------------------------------------
(* main.py: parse_input and the command loop *)

Whitespace == {" ", "\t"}

UpperCase == <<"A", "B", "C", "D", "E", "F", "G", "H", "I", "J", "K", "L", "M",
               "N", "O", "P", "Q", "R", "S", "T", "U", "V", "W", "X", "Y", "Z">>
LowerCase == <<"a", "b", "c", "d", "e", "f", "g", "h", "i", "j", "k", "l", "m",
               "n", "o", "p", "q", "r", "s", "t", "u", "v", "w", "x", "y", "z">>

\* str.lower
lower(s) ==
    [i \in 1..Len(s) |->
        IF \E k \in 1..Len(UpperCase) : UpperCase[k] = s[i]
        THEN LowerCase[CHOOSE k \in 1..Len(UpperCase) : UpperCase[k] = s[i]]
        ELSE s[i]]

\* str.strip
RECURSIVE strip(_)
strip(s) ==
    IF s = <<>> THEN s
    ELSE IF Head(s) \in Whitespace THEN strip(Tail(s))
    ELSE IF s[Len(s)] \in Whitespace THEN strip(SubSeq(s, 1, Len(s) - 1))
    ELSE s

\* str.split(): the maximal runs of non-whitespace characters, in order
RECURSIVE split_from(_, _, _)
split_from(s, word, words) ==
    IF s = <<>>
    THEN IF word = <<>> THEN words ELSE Append(words, word)
    ELSE IF Head(s) \in Whitespace
         THEN split_from(Tail(s), <<>>, IF word = <<>> THEN words ELSE Append(words, word))
         ELSE split_from(Tail(s), Append(word, Head(s)), words)

split(s) == split_from(s, <<>>, <<>>)

\* main.parse_input: cmd, *args = user_input.split() raises ValueError on no words
parse_input(user_input) ==
    LET words == split(user_input)
    IN  IF words = <<>>
        THEN [err |-> "ValueError", cmd |-> <<>>, args |-> <<>>]
        ELSE [err |-> NoError, cmd |-> lower(strip(Head(words))), args |-> Tail(words)]

W_hello == <<"h", "e", "l", "l", "o">>
W_all == <<"a", "l", "l">>
W_add == <<"a", "d", "d">>
W_change == <<"c", "h", "a", "n", "g", "e">>
W_contact == <<"c", "o", "n", "t", "a", "c", "t">>
W_delete == <<"d", "e", "l", "e", "t", "e">>
W_exit == <<"e", "x", "i", "t">>
W_close == <<"c", "l", "o", "s", "e">>
W_ADD == <<"A", "D", "D">>
W_Exit == <<"E", "x", "i", "t">>
W_foo == <<"f", "o", "o">>
W_extra == <<"x">>

CommandRawPhones == {Raw_A_local, Raw_B_local, Raw_short}

\* argument lists: a name, then up to two phones, then filler words
ArgLists ==
    UNION { { as \in [1..n -> Names \cup CommandRawPhones \cup {W_extra}] :
                \A i \in 1..n :
                    /\ i = 1 => as[i] \in Names
                    /\ i \in {2, 3} => as[i] \in CommandRawPhones
                    /\ i > 3 => as[i] = W_extra }
            : n \in 0..MaxArgs }

ShortArgLists == { as \in ArgLists : Len(as) <= 1 }

\* the lines typed at the prompt
Lines ==
    { join(<<" ">>, <<w>> \o as) : w \in {W_add, W_change, W_contact, W_delete}, as \in ArgLists }
        \cup { join(<<" ">>, <<w>> \o as) :
                 w \in {W_hello, W_all, W_exit, W_close, W_foo, W_Exit}, as \in ShortArgLists }
        \cup { <<" ", " ">> \o join(<<" ", "\t">>, <<W_ADD>> \o as) \o <<" ">> :
                 as \in { a \in ArgLists : Len(a) = 2 } }
        \cup { <<>>, <<" ">>, <<" ", "\t", " ">> }

\* parse_input over the lines typed, computed once per line
Parsed == [line \in Lines |-> parse_input(line)]

UsageText == "Invalid command. Usage: hello | all | add [name] [phone] | change [name] [phone] | contact [name] | delete [name] | exit | close"

Init ==
    /\ raw_phone = <<>>
    /\ phone = NoPhone
    /\ again = NoPhone
    /\ record = Record(Alice)
    /\ data = <<>>
    /\ call = InitCall
    /\ pc = "running"
    /\ command = <<>>
    /\ args = <<>>
    /\ output = NoOutput

\* one iteration whose handler outcome is r: print the value, or die of the exception
Iterate(parsed, r) ==
    /\ command' = parsed.cmd
    /\ args' = parsed.args
    /\ data' = r.data
    /\ IF r.err = NoError
       THEN output' = r.value /\ pc' = "running"
       ELSE output' = NoOutput /\ pc' = "crashed"
    /\ UNCHANGED <<raw_phone, phone, again, record, call>>

\* parse_input raises: the exception leaves main()
ParseFails ==
    /\ pc = "running"
    /\ \E line \in Lines :
        /\ Parsed[line].err # NoError
        /\ command' = <<>>
        /\ args' = <<>>
        /\ output' = NoOutput
        /\ pc' = "crashed"
        /\ UNCHANGED <<raw_phone, phone, again, record, data, call>>

Hello ==
    /\ pc = "running"
    /\ \E line \in Lines :
        /\ Parsed[line].err = NoError
        /\ Parsed[line].cmd = W_hello
        /\ Iterate(Parsed[line], Returned(Printed("text", "How can I help you?", "", <<>>, <<>>), data))

All ==
    /\ pc = "running"
    /\ \E line \in Lines :
        /\ Parsed[line].err = NoError
        /\ Parsed[line].cmd = W_all
        /\ Iterate(Parsed[line], get_all_contacts(data))

Add ==
    /\ pc = "running"
    /\ \E line \in Lines :
        /\ Parsed[line].err = NoError
        /\ Parsed[line].cmd = W_add
        /\ Iterate(Parsed[line], add_contact_number(data, Parsed[line].args))

Change ==
    /\ pc = "running"
    /\ \E line \in Lines :
        /\ Parsed[line].err = NoError
        /\ Parsed[line].cmd = W_change
        /\ Iterate(Parsed[line], change_contact_number(data, Parsed[line].args))

Contact ==
    /\ pc = "running"
    /\ \E line \in Lines :
        /\ Parsed[line].err = NoError
        /\ Parsed[line].cmd = W_contact
        /\ Iterate(Parsed[line], get_contact(data, Parsed[line].args))

DeleteContact ==
    /\ pc = "running"
    /\ \E line \in Lines :
        /\ Parsed[line].err = NoError
        /\ Parsed[line].cmd = W_delete
        /\ Iterate(Parsed[line], delete_contact(data, Parsed[line].args))

Exit ==
    /\ pc = "running"
    /\ \E line \in Lines :
        /\ Parsed[line].err = NoError
        /\ Parsed[line].cmd \in {W_exit, W_close}
        /\ command' = Parsed[line].cmd
        /\ args' = Parsed[line].args
        /\ output' = Printed("text", "Goodbye!", "", <<>>, <<>>)
        /\ pc' = "exited"
        /\ UNCHANGED <<raw_phone, phone, again, record, data, call>>

Invalid ==
    /\ pc = "running"
    /\ \E line \in Lines :
        /\ Parsed[line].err = NoError
        /\ Parsed[line].cmd \notin {W_hello, W_all, W_add, W_change, W_contact, W_delete, W_exit, W_close}
        /\ Iterate(Parsed[line], Returned(Printed("usage", UsageText, "", <<>>, <<>>), data))

Next ==
    \/ ParseFails \/ Hello \/ All \/ Add \/ Change \/ Contact \/ DeleteContact \/ Exit \/ Invalid

Spec == Init /\ [][Next]_vars

(* C1: every mutating command either fully succeeds or leaves the data model
   unchanged: whenever add, change or delete prints the decorated error
   message, the book holds the same names and the same phone list per record
   as before the command; a failing add for a new name leaves no record. *)
C1_FailedCommandLeavesBookUnchanged ==
    [][ (command' \in {W_add, W_change, W_delete} /\ output'.kind = "error") => data' = data ]_vars

(* C10: the command loop never stops on an error: it leaves the running state
   only when the command word is exit or close. *)
C10_LoopStopsOnlyOnExit ==
    pc # "running" => (pc = "exited" /\ command \in {W_exit, W_close})

-----------------------------------------------------------------------------
(* Raw phone strings the Phone layer is exercised with *)

BaseDigits == <<"0", "5", "0", "1", "2", "3", "4", "5", "6", "7">>

Body(n) == [i \in 1..n |-> BaseDigits[((i - 1) % Len(BaseDigits)) + 1]]

Prefixes == { <<>>, <<"+">>, <<"3", "8">>, <<"+", "3", "8">>, <<"+", "+">>,
              <<"8">>, <<"3", "8", "3", "8">>, <<"(">> }

StrayChars == {"+", "-", " ", ")"}

InsertAt(s, k, c) == SubSeq(s, 1, k) \o <<c>> \o SubSeq(s, k + 1, Len(s))

Bodies ==
    LET plain == { Body(n) : n \in 0..MaxBodyLen }
    IN  plain \cup UNION { { InsertAt(b, k, c) : k \in { j \in 0..MaxInsertPos : j <= Len(b) }, c \in StrayChars }
                           : b \in plain }

RawInputs == { pre \o b : pre \in Prefixes, b \in Bodies }



InitPhone ==
    /\ raw_phone \in RawInputs
    /\ phone = NoPhone
    /\ again = NoPhone
    /\ record = Record(Alice)
    /\ data = <<>>
    /\ call = InitCall
    /\ pc = "running"
    /\ command = <<>>
    /\ args = <<>>
    /\ output = NoOutput

\* p = Phone(raw_phone)
Construct ==
    /\ phone = NoPhone
    /\ phone' = Phone(raw_phone)
    /\ UNCHANGED <<raw_phone, again, record, data, call, pc, command, args, output>>

\* Phone(p.value)
Reconstruct ==
    /\ phone.err = NoError
    /\ again = NoPhone
    /\ again' = Phone(phone.value)
    /\ UNCHANGED <<raw_phone, phone, record, data, call, pc, command, args, output>>

NextPhone == Construct \/ Reconstruct

SpecPhone == InitPhone /\ [][NextPhone]_vars

-----------------------------------------------------------------------------
(* C3: every successfully constructed Phone value has exactly 13 characters,
   a single leading "+" followed by 12 digits; no "+" occurs at any position
   other than the first. *)
C3_PhoneIsPlusAnd12Digits ==
    phone.err = NoError =>
        /\ Len(phone.value) = PhoneLen
        /\ phone.value[1] = "+"
        /\ \A i \in 2..Len(phone.value) : phone.value[i] \in Digits

(* C4: Phone normalization is idempotent: constructing a Phone from the value
   of a successfully constructed Phone succeeds and yields the same value. *)
C4_NormalizeIdempotent ==
    (phone.err = NoError /\ again # NoPhone) =>
        /\ again.err = NoError
        /\ again.value = phone.value

\* a raw string without a leading "+" was normalized and then normalized again
C4_Witness ==
    /\ phone.err = NoError
    /\ again # NoPhone
    /\ ~startswith(findall_join(raw_phone), <<"+">>)
    /\ raw_phone # phone.value

====
